---- MODULE Spec2Model ----
(***************************************************************************)
(* Verification model of the off-chain verifier agent (ai-agent):          *)
(*   blockchain_service.py   init_contract, listen_for_event,              *)
(*                           _send_transaction, send_verification_result   *)
(*   ipfs_service.py         download_work_from_ipfs                       *)
(*   verification_service.py verify_code_coverage                          *)
(* The per-job pipeline that the listener calls back (download, verify,    *)
(* submit, cleanup) has no source file here; it is modelled from section   *)
(* 4.4 of the specification.                                               *)
(***************************************************************************)
EXTENDS Integers, Sequences, FiniteSets, TLC

\* ------------------------------------------------------------------ bounds
MaxBlock == 2
MaxFaults == 2
MaxLag == 1
MaxLeaks == 1

\* ------------------------------------------------------- program constants
MINIMUM_COVERAGE_PERCENTAGE == 90

\* ------------------------------------------------------------------ values
None == 0
NoBlock == -1
NoEvent == 0
NoDir == 0
NoCall == [fn |-> "none"]
NoReceipt == -1

Blocks == 1..MaxBlock
Responses == {"ok", "http_error", "connection_error", "timeout"}
\* os_error: subprocess.run raising anything but the two named exceptions
ToolOutcomes == {"ok", "called_process_error", "not_found", "os_error"}
\* not_a_number: the report parses but totals.percent_covered is no number
ReportKinds == {"absent", "unparsable", "no_totals", "no_percent",
                "not_a_number", "percent"}
\* percent_covered in hundredths of a percent
Percents == {0, 8999, 9000, 9500, 10000}
\* configured MINIMUM_COVERAGE_PERCENTAGE values and the percentages around them
Thresholds == {0, 50, 90, 100}
CallPercents == {p \in {t * 100 + d : t \in Thresholds, d \in {-1, 0, 1}} :
                    p >= 0 /\ p <= 10000}
\* how a fresh init_contract ends
InitOutcomes == {"ok", "not_connected", "abi_missing", "bad_key"}
\* the step of _send_transaction that raises, if any
TxSteps == <<"init", "nonce", "build", "sign", "broadcast", "wait">>
FailPoints == {"none", "nonce", "build", "sign", "broadcast", "wait"}
TxFns == {"_send_transaction", "send_verification_result",
          "resolve_dispute_on_chain"}
HandlingPcs == {"download", "verify", "submit"}
LoopPcs == {"loop", "filter", "batch", "download", "verify", "submit",
            "height", "sleep5", "cooldown"}

VARIABLES
    head,               \* ledger: current chain height
    evBlocks,           \* ledger: blocks that hold a WorkSubmitted event
    provLag,            \* blocks the connected provider is behind the chain
    w3,                 \* module global w3 (None or a handle)
    contract,           \* module global contract
    ai_agent_account,   \* module global ai_agent_account
    connCount,          \* handles built so far by init_contract
    pc,                 \* position of listen_for_event
    raised,             \* exception that escaped listen_for_event
    last_block_number,  \* local of listen_for_event: the watermark
    batch,              \* entries of the current poll not yet handled
    event,              \* event last passed to the callback
    temp_dir,           \* pipeline: scratch directory of this handling
    is_approved,        \* pipeline: verdict of this handling
    scratch,            \* filesystem: scratch directories that exist
    sent,               \* verifyWork calls made by this handling
    faults,             \* exceptions caught so far by the listener's handler
    initial_watermark,  \* history: watermark recorded at start
    handled,            \* history: times each event was passed to the callback
    completed,          \* history: events whose callback has returned
    fetch,              \* history of this handling: outcome of the fetch
    checked,            \* history of this handling: checker was invoked
    quality,            \* history of this handling: proof of quality
    call,               \* last direct call of a service function, with its result
    slept               \* length of the sleep the listener has just ended

envVars == <<head, evBlocks, provLag>>
connVars == <<w3, contract, ai_agent_account, connCount>>
pipeVars == <<temp_dir, is_approved, scratch, sent, fetch, checked, quality>>
histVars == <<initial_watermark, handled, completed>>
vars == <<head, evBlocks, provLag, w3, contract, ai_agent_account, connCount,
          pc, raised, last_block_number, batch, event, temp_dir, is_approved,
          scratch, sent, faults, initial_watermark, handled, completed,
          fetch, checked, quality, call, slept>>
\* everything but the connection globals, the fault count and the call record
listenerVars == <<head, evBlocks, provLag, pc, raised, last_block_number,
                  batch, event, temp_dir, is_approved, scratch, sent,
                  initial_watermark, handled, completed, fetch, checked,
                  quality, slept>>

\* --------------------------------------------------------------- the ledger
\* Height the connected provider reports (w3.eth.block_number).
block_number == IF head > provLag THEN head - provLag ELSE 0

\* WorkSubmitted events of blocks lo..hi in the ledger's order.
RECURSIVE EntriesBetween(_, _)
EntriesBetween(lo, hi) ==
    IF lo > hi THEN <<>>
    ELSE IF lo \in evBlocks
         THEN <<lo>> \o EntriesBetween(lo + 1, hi)
         ELSE EntriesBetween(lo + 1, hi)

\* jobId carried by the event of a block
JobId(e) == e

\* create_filter(fromBlock).get_new_entries(): the entries from fromBlock on.
get_new_entries_wrong_from(watermark) == EntriesBetween(watermark, block_number)
get_new_entries_with_repeats(watermark) ==
    EntriesBetween(watermark + 1, block_number)
        \o EntriesBetween(watermark + 1, block_number)
get_new_entries(watermark) == EntriesBetween(watermark + 1, block_number)

\* A block is mined, with or without a WorkSubmitted event.
MineBlock ==
    /\ head < MaxBlock
    /\ head' = head + 1
    /\ \E withEvent \in BOOLEAN :
         evBlocks' = IF withEvent THEN evBlocks \cup {head + 1} ELSE evBlocks
    /\ UNCHANGED <<provLag, connVars, pc, raised, last_block_number, batch,
                   event, pipeVars, faults, histVars>>
    /\ UNCHANGED <<call, slept>>

\* The provider catches up with the chain.
ProviderSync ==
    /\ provLag > 0
    /\ provLag' = provLag - 1
    /\ UNCHANGED <<head, evBlocks, connVars, pc, raised, last_block_number,
                   batch, event, pipeVars, faults, histVars>>
    /\ UNCHANGED <<call, slept>>

\* ------------------------------------------------------------ init_contract
Globals == [w3 |-> w3, contract |-> contract, ai_agent_account |-> ai_agent_account]
AllSet(g) == g.w3 # None /\ g.contract # None /\ g.ai_agent_account # None

NoGlobals == [w3 |-> None, contract |-> None, ai_agent_account |-> None]

\* init_contract returning: idempotent when all three globals are set.
init_contract_reconnects(g, handle) ==
    [w3 |-> handle, contract |-> handle, ai_agent_account |-> handle]
init_contract(g, handle) ==
    IF AllSet(g) THEN g
    ELSE [w3 |-> handle, contract |-> handle, ai_agent_account |-> handle]

\* init_contract raising: the globals are reset before the re-raise.
init_contract_raises_no_reset(g) == g
init_contract_raises(g) == NoGlobals

SetGlobals(g) ==
    /\ w3' = g.w3
    /\ contract' = g.contract
    /\ ai_agent_account' = g.ai_agent_account

\* ------------------------------------------------- listen_for_event: handler
\* except Exception: only w3 and contract are declared global in
\* listen_for_event, so the assignment to ai_agent_account binds a local.
ExceptHandlerReraises(g) ==
    /\ SetGlobals(g)
    /\ pc' = "crashed"
    /\ raised' = "Exception"
    /\ faults' = faults + 1
    /\ UNCHANGED last_block_number
ExceptHandler(g) ==
    /\ SetGlobals([g EXCEPT !.w3 = None, !.contract = None])
    /\ pc' = "cooldown"
    /\ faults' = faults + 1
    /\ UNCHANGED <<raised, last_block_number>>

CanFail == faults < MaxFaults

\* ---------------------------------------------------- listen_for_event: start
\* last_block_number = w3.eth.block_number, before the loop and its try.
Start ==
    /\ pc = "start"
    /\ IF w3 = None
       THEN /\ pc' = "crashed"
            /\ raised' = "AttributeError"
            /\ UNCHANGED <<last_block_number, initial_watermark>>
       ELSE /\ pc' = "loop"
            /\ last_block_number' = block_number
            /\ initial_watermark' = block_number
            /\ UNCHANGED raised
    /\ UNCHANGED <<envVars, connVars, batch, event, pipeVars, faults,
                   handled, completed>>
    /\ UNCHANGED <<call, slept>>

\* The height read at start fails: nothing catches it.
StartRaises ==
    /\ pc = "start"
    /\ w3 # None
    /\ pc' = "crashed"
    /\ raised' = "ConnectionError"
    /\ UNCHANGED <<envVars, connVars, last_block_number, batch, event,
                   pipeVars, faults, histVars>>
    /\ UNCHANGED <<call, slept>>

\* ----------------------------------------------------- listen_for_event: loop
\* if not w3 or not contract: init_contract()
EnsureInitialized ==
    /\ pc = "loop"
    /\ IF w3 = None \/ contract = None
       THEN /\ SetGlobals(init_contract(Globals, connCount + 1))
            /\ connCount' = connCount + 1
            /\ \E lag \in 0..MaxLag : provLag' = lag
       ELSE UNCHANGED <<connVars, provLag>>
    /\ pc' = "filter"
    /\ UNCHANGED <<head, evBlocks, raised, last_block_number, batch, event,
                   pipeVars, faults, histVars>>
    /\ UNCHANGED call
    /\ slept' = 0

InitRaises ==
    /\ pc = "loop"
    /\ w3 = None \/ contract = None
    /\ CanFail
    /\ ExceptHandler(init_contract_raises(Globals))
    /\ UNCHANGED <<envVars, connCount, batch, event, pipeVars, histVars>>
    /\ UNCHANGED call
    /\ slept' = 0

\* event_filter = ...create_filter(fromBlock=last_block_number + 1)
\* for event in event_filter.get_new_entries():
Poll ==
    /\ pc = "filter"
    /\ batch' = get_new_entries(last_block_number)
    /\ pc' = "batch"
    /\ UNCHANGED <<envVars, connVars, raised, last_block_number, event,
                   pipeVars, faults, histVars>>
    /\ UNCHANGED <<call, slept>>

PollRaises ==
    /\ pc = "filter"
    /\ CanFail
    /\ ExceptHandler(Globals)
    /\ UNCHANGED <<envVars, connCount, batch, event, pipeVars, histVars>>
    /\ UNCHANGED <<call, slept>>

\* Next entry of the batch: await callback_function(event); or the batch is
\* exhausted and the loop goes on to the height read.
\* The locals of the last callback invocation are gone.
ForgetHandling ==
    /\ temp_dir' = NoDir
    /\ is_approved' = FALSE
    /\ sent' = <<>>
    /\ fetch' = "none"
    /\ checked' = FALSE
    /\ quality' = "none"

\* for event in entries: the entries are taken from the front.
next_entry_from_the_back(entries) ==
    [event |-> entries[Len(entries)], rest |-> SubSeq(entries, 1, Len(entries) - 1)]
next_entry(entries) ==
    [event |-> Head(entries), rest |-> Tail(entries)]

NextEntry ==
    /\ pc = "batch"
    /\ IF batch = <<>>
       THEN /\ pc' = "height"
            /\ event' = NoEvent
            /\ ForgetHandling
            /\ UNCHANGED <<batch, scratch, handled>>
       ELSE /\ pc' = "download"
            /\ event' = next_entry(batch).event
            /\ batch' = next_entry(batch).rest
            /\ handled' = [handled EXCEPT ![next_entry(batch).event] = @ + 1]
            /\ ForgetHandling
            /\ UNCHANGED scratch
    /\ UNCHANGED <<envVars, connVars, raised, last_block_number, faults,
                   initial_watermark, completed>>
    /\ UNCHANGED <<call, slept>>

\* last_block_number = w3.eth.block_number, after the batch.
watermark_after_batch(lbn, height) == height

HeightRead ==
    /\ pc = "height"
    /\ last_block_number' = watermark_after_batch(last_block_number, block_number)
    /\ pc' = "sleep5"
    /\ UNCHANGED <<envVars, connVars, raised, batch, event, pipeVars, faults,
                   histVars>>
    /\ UNCHANGED <<call, slept>>

HeightRaises ==
    /\ pc = "height"
    /\ CanFail
    /\ ExceptHandler(Globals)
    /\ UNCHANGED <<envVars, connCount, batch, event, pipeVars, histVars>>
    /\ UNCHANGED <<call, slept>>

\* The two waits: asyncio.sleep(5) ends an iteration that returned,
\* asyncio.sleep(10) one that raised.
POLL_INTERVAL == 5
COOLDOWN_INTERVAL == 10
sleep_after_without_backoff(outcome) == POLL_INTERVAL
sleep_after(outcome) ==
    IF outcome = "raised" THEN COOLDOWN_INTERVAL ELSE POLL_INTERVAL

\* await asyncio.sleep(5)
PollSleep ==
    /\ pc = "sleep5"
    /\ pc' = "loop"
    /\ UNCHANGED <<envVars, connVars, raised, last_block_number, batch, event,
                   pipeVars, faults, histVars>>
    /\ UNCHANGED call
    /\ slept' = sleep_after("returned")

\* await asyncio.sleep(10), in the handler
Cooldown ==
    /\ pc = "cooldown"
    /\ pc' = "loop"
    /\ event' = NoEvent
    /\ ForgetHandling
    /\ UNCHANGED <<envVars, connVars, raised, last_block_number, batch,
                   scratch, faults, histVars>>
    /\ UNCHANGED call
    /\ slept' = sleep_after("raised")

\* -------------------------------------------------- download_work_from_ipfs
\* tempfile.mkdtemp: a name that does not exist yet
FreshDir(fs) == CHOOSE d \in 1..(MaxLeaks + 1) :
                    d \notin fs /\ \A x \in 1..(d - 1) : x \in fs

\* resp: outcome of requests.post + raise_for_status; wr: the write succeeds.
\* Only requests' exceptions are caught; mkdtemp runs after raise_for_status.
download_no_status_check(resp, wr, fs) ==
    IF resp \in {"connection_error", "timeout"}
    THEN [ret |-> NoDir, raises |-> FALSE, fs |-> fs]
    ELSE [ret |-> FreshDir(fs), raises |-> FALSE, fs |-> fs \cup {FreshDir(fs)}]
download_into_shared_dir(resp, wr, fs) ==
    IF resp # "ok"
    THEN [ret |-> NoDir, raises |-> FALSE, fs |-> fs]
    ELSE IF wr
         THEN [ret |-> 1, raises |-> FALSE, fs |-> fs \cup {1}]
         ELSE [ret |-> NoDir, raises |-> TRUE, fs |-> fs \cup {1}]
download_mkdtemp_first(resp, wr, fs) ==
    IF resp # "ok"
    THEN [ret |-> NoDir, raises |-> FALSE, fs |-> fs \cup {FreshDir(fs)}]
    ELSE IF wr
         THEN [ret |-> FreshDir(fs), raises |-> FALSE, fs |-> fs \cup {FreshDir(fs)}]
         ELSE [ret |-> NoDir, raises |-> TRUE, fs |-> fs \cup {FreshDir(fs)}]
download_work_from_ipfs(resp, wr, fs) ==
    IF resp # "ok"
    THEN [ret |-> NoDir, raises |-> FALSE, fs |-> fs]
    ELSE IF wr
         THEN [ret |-> FreshDir(fs), raises |-> FALSE, fs |-> fs \cup {FreshDir(fs)}]
         ELSE [ret |-> NoDir, raises |-> TRUE, fs |-> fs \cup {FreshDir(fs)}]

\* ------------------------------------------------------ verify_code_coverage
\* tool: outcome of subprocess.run(check=True); report: what coverage.json
\* holds; pct: its totals.percent_covered, in hundredths.
verify_code_coverage_lenient(tool, report, pct) ==
    IF tool = "not_found" THEN FALSE
    ELSE IF report \in {"absent", "unparsable"} THEN FALSE
    ELSE (IF report = "percent" THEN pct ELSE 0) >= MINIMUM_COVERAGE_PERCENTAGE * 100
\* The whole function for a configured minimum: what it returns and whether
\* an exception leaves it. total_percentage defaults to 0 when "totals" or
\* "percent_covered" is missing; the last except clause catches Exception.
verify_strict_greater(minimum, tool, report, pct) ==
    IF tool # "ok" \/ report \in {"absent", "unparsable", "not_a_number"}
    THEN [ret |-> FALSE, raises |-> FALSE]
    ELSE [ret |-> (IF report = "percent" THEN pct ELSE 0) > minimum * 100,
          raises |-> FALSE]
verify_no_catch_all(minimum, tool, report, pct) ==
    IF tool \in {"called_process_error", "not_found"}
    THEN [ret |-> FALSE, raises |-> FALSE]
    ELSE IF tool = "os_error" THEN [ret |-> FALSE, raises |-> TRUE]
    ELSE IF report \in {"absent", "unparsable"} THEN [ret |-> FALSE, raises |-> FALSE]
    ELSE IF report = "not_a_number" THEN [ret |-> FALSE, raises |-> TRUE]
    ELSE [ret |-> (IF report = "percent" THEN pct ELSE 0) >= minimum * 100,
          raises |-> FALSE]
verify_code_coverage_call(minimum, tool, report, pct) ==
    IF tool = "called_process_error" THEN [ret |-> FALSE, raises |-> FALSE]
    ELSE IF tool = "not_found" THEN [ret |-> FALSE, raises |-> FALSE]
    ELSE IF tool = "os_error" THEN [ret |-> FALSE, raises |-> FALSE]
    ELSE IF report = "absent" THEN [ret |-> FALSE, raises |-> FALSE]
    ELSE IF report = "unparsable" THEN [ret |-> FALSE, raises |-> FALSE]
    ELSE IF report = "not_a_number" THEN [ret |-> FALSE, raises |-> FALSE]
    ELSE [ret |-> (IF report = "percent" THEN pct ELSE 0) >= minimum * 100,
          raises |-> FALSE]

\* As the pipeline calls it, under the default configuration.
verify_code_coverage(tool, report, pct) ==
    verify_code_coverage_call(MINIMUM_COVERAGE_PERCENTAGE, tool, report, pct).ret

\* -------------------------------------------------- send_verification_result
\* contract.functions.verifyWork(job_id, is_approved), then one
\* _send_transaction of that call.
send_verification_result_twice(job_id, approved, calls) ==
    Append(Append(calls, <<job_id, approved>>), <<job_id, approved>>)
send_verification_result(job_id, approved, calls) ==
    Append(calls, <<job_id, approved>>)

\* ------------------------------------------------ the per-job pipeline (4.4)
\* Received -> Downloading -> Downloaded | DownloadFailed
Download ==
    /\ pc = "download"
    /\ \E resp \in Responses, wr \in BOOLEAN :
         /\ ~wr => resp = "ok" /\ Cardinality(scratch) < MaxLeaks
         /\ LET r == download_work_from_ipfs(resp, wr, scratch) IN
              /\ scratch' = r.fs
              /\ temp_dir' = r.ret
              /\ pc' = IF r.ret # NoDir /\ ~r.raises THEN "verify" ELSE "submit"
         /\ fetch' = IF resp # "ok" THEN "failed"
                     ELSE IF wr THEN "ok" ELSE "write_failed"
    /\ is_approved' = FALSE
    /\ UNCHANGED <<envVars, connVars, raised, last_block_number, batch, event,
                   sent, checked, quality, faults, histVars>>
    /\ UNCHANGED <<call, slept>>

\* What section 4.3 asks of a pass: the tool exits cleanly, the report
\* exists and parses, and the metric is at least the minimum.
Proven(tool, report, pct) ==
    /\ tool = "ok"
    /\ report = "percent"
    /\ pct >= MINIMUM_COVERAGE_PERCENTAGE * 100

\* Verifying -> Verified | VerifyFailed
Verify ==
    /\ pc = "verify"
    /\ \E tool \in ToolOutcomes, report \in ReportKinds, pct \in Percents :
         /\ report # "percent" => pct = 0
         /\ is_approved' = verify_code_coverage(tool, report, pct)
         /\ quality' = IF Proven(tool, report, pct) THEN "met" ELSE "unmet"
    /\ checked' = TRUE
    /\ pc' = "submit"
    /\ UNCHANGED <<envVars, connVars, raised, last_block_number, batch, event,
                   temp_dir, scratch, sent, fetch, faults, histVars>>
    /\ UNCHANGED <<call, slept>>

\* Submitting -> Done, with the terminal cleanup of the scratch artifact.
Submit ==
    /\ pc = "submit"
    /\ sent' = send_verification_result(JobId(event), is_approved, sent)
    /\ scratch' = scratch \ {temp_dir}
    /\ completed' = completed \cup {event}
    /\ pc' = "batch"
    /\ UNCHANGED <<envVars, connVars, raised, last_block_number, batch, event,
                   temp_dir, is_approved, fetch, checked, quality, faults,
                   initial_watermark, handled>>
    /\ UNCHANGED <<call, slept>>

\* _send_transaction raises (provider unreachable): the cleanup runs and the
\* exception reaches the listener's handler.
SubmitRaises ==
    /\ pc = "submit"
    /\ CanFail
    /\ sent' = send_verification_result(JobId(event), is_approved, sent)
    /\ scratch' = scratch \ {temp_dir}
    /\ ExceptHandler(Globals)
    /\ UNCHANGED <<envVars, connCount, batch, event, temp_dir, is_approved,
                   fetch, checked, quality, histVars>>
    /\ UNCHANGED <<call, slept>>

\* ------------------------------------------------------------ specification
Init ==
    /\ head = 0
    /\ evBlocks = {}
    /\ \E initialised \in BOOLEAN :
         /\ w3 = (IF initialised THEN 1 ELSE None)
         /\ contract = w3
         /\ ai_agent_account = w3
         /\ connCount = w3
         /\ provLag \in (IF initialised THEN 0..MaxLag ELSE {0})
    /\ pc = "start"
    /\ raised = "none"
    /\ last_block_number = NoBlock
    /\ batch = <<>>
    /\ event = NoEvent
    /\ temp_dir = NoDir
    /\ is_approved = FALSE
    /\ scratch = {}
    /\ sent = <<>>
    /\ faults = 0
    /\ initial_watermark = NoBlock
    /\ handled = [b \in Blocks |-> 0]
    /\ completed = {}
    /\ fetch = "none"
    /\ checked = FALSE
    /\ quality = "none"
    /\ call = NoCall
    /\ slept = 0

ListenerProgress ==
    \/ Start
    \/ EnsureInitialized
    \/ Poll
    \/ NextEntry
    \/ Download
    \/ Verify
    \/ Submit
    \/ HeightRead
    \/ PollSleep
    \/ Cooldown

Next ==
    \/ MineBlock
    \/ ProviderSync
    \/ Start
    \/ StartRaises
    \/ EnsureInitialized
    \/ InitRaises
    \/ Poll
    \/ PollRaises
    \/ NextEntry
    \/ Download
    \/ Verify
    \/ Submit
    \/ SubmitRaises
    \/ HeightRead
    \/ HeightRaises
    \/ PollSleep
    \/ Cooldown

Spec == Init /\ [][Next]_vars

\* The listener is the running coroutine of its event loop and the provider
\* catches up with the chain.
FairSpec == Spec /\ WF_vars(ListenerProgress) /\ WF_vars(ProviderSync)

\* ------------------------------------------------------- host cancellation
\* Where the listener is suspended: asyncio.sleep(5), asyncio.sleep(10), or
\* the awaited callback.
SuspensionPcs == {"sleep5", "cooldown"} \cup HandlingPcs

\* except Exception as e: asyncio.CancelledError derives from BaseException.
except_catches_everything(exc) == TRUE
except_Exception(exc) == exc # "CancelledError"

\* The host cancels the listener's task: CancelledError is raised at the
\* await where the listener is suspended. An exception raised inside the
\* handler (the cooldown sleep) is not caught by the same try.
Cancel ==
    /\ pc \in SuspensionPcs
    /\ raised' = "CancelledError"
    /\ IF pc # "cooldown" /\ except_Exception("CancelledError")
       THEN /\ CanFail
            /\ SetGlobals([Globals EXCEPT !.w3 = None, !.contract = None])
            /\ pc' = "cooldown"
            /\ faults' = faults + 1
       ELSE /\ pc' = "cancelled"
            /\ UNCHANGED <<w3, contract, ai_agent_account, faults>>
    /\ UNCHANGED <<envVars, connCount, last_block_number, batch, event,
                   pipeVars, histVars, call, slept>>

HostNext ==
    \/ Next
    \/ Cancel

\* The listener as a task of its host, which may cancel it.
HostSpec == Init /\ [][HostNext]_vars

\* ============================================== direct calls of the services
\* --------------------------------------------------------- init_contract call
InitError(outcome) ==
    CASE outcome = "not_connected" -> "ConnectionError"
      [] outcome = "abi_missing" -> "FileNotFoundError"
      [] outcome = "bad_key" -> "ValueError"
      [] OTHER -> "none"

\* The globals as the failing step finds them: w3 is bound first, contract
\* after the metadata file was read, ai_agent_account last.
PartialInit(g, handle, outcome) ==
    IF outcome = "bad_key"
    THEN [g EXCEPT !.w3 = handle, !.contract = handle]
    ELSE [g EXCEPT !.w3 = handle]

\* One call of init_contract: the globals it leaves, the exception it
\* re-raises and whether w3.is_connected() was called.
init_contract_call(g, handle, outcome) ==
    IF AllSet(g) \/ outcome = "ok"
    THEN [g |-> init_contract(g, handle), exc |-> "none",
          checked |-> init_contract(g, handle) # g]
    ELSE [g |-> init_contract_raises(PartialInit(g, handle, outcome)),
          exc |-> InitError(outcome), checked |-> TRUE]

\* ------------------------------------------------------ _send_transaction
RECURSIVE StepsUntil(_, _)
StepsUntil(i, failAt) ==
    IF i > Len(TxSteps) THEN <<>>
    ELSE IF TxSteps[i] = failAt THEN <<TxSteps[i]>>
    ELSE <<TxSteps[i]>> \o StepsUntil(i + 1, failAt)

\* init_contract(), nonce, build_transaction, sign, send_raw_transaction,
\* wait_for_transaction_receipt; the receipt is returned whatever its status.
send_transaction_raises_on_revert(g, handle, outcome, failAt, status) ==
    LET i == init_contract_call(g, handle, outcome) IN
    IF i.exc # "none"
    THEN [g |-> i.g, steps |-> <<"init">>, exc |-> i.exc, receipt |-> NoReceipt]
    ELSE IF failAt # "none" \/ status = 0
    THEN [g |-> i.g, steps |-> StepsUntil(1, failAt),
          exc |-> IF failAt # "none" THEN "ConnectionError" ELSE "TransactionFailed",
          receipt |-> NoReceipt]
    ELSE [g |-> i.g, steps |-> TxSteps, exc |-> "none", receipt |-> status]
send_transaction_retries_revert(g, handle, outcome, failAt, status) ==
    LET i == init_contract_call(g, handle, outcome) IN
    IF i.exc # "none"
    THEN [g |-> i.g, steps |-> <<"init">>, exc |-> i.exc, receipt |-> NoReceipt]
    ELSE IF failAt # "none"
    THEN [g |-> i.g, steps |-> StepsUntil(1, failAt), exc |-> "ConnectionError",
          receipt |-> NoReceipt]
    ELSE [g |-> i.g,
          steps |-> IF status = 0 THEN TxSteps \o SubSeq(TxSteps, 2, 6) ELSE TxSteps,
          exc |-> "none", receipt |-> status]
send_transaction_keeps_going(g, handle, outcome, failAt, status) ==
    LET i == init_contract_call(g, handle, outcome) IN
    IF i.exc # "none"
    THEN [g |-> i.g, steps |-> <<"init">>, exc |-> i.exc, receipt |-> NoReceipt]
    ELSE [g |-> i.g, steps |-> TxSteps,
          exc |-> IF failAt # "none" THEN "ConnectionError" ELSE "none",
          receipt |-> IF failAt # "none" THEN NoReceipt ELSE status]
send_transaction(g, handle, outcome, failAt, status) ==
    LET i == init_contract_call(g, handle, outcome) IN
    IF i.exc # "none"
    THEN [g |-> i.g, steps |-> <<"init">>, exc |-> i.exc, receipt |-> NoReceipt]
    ELSE IF failAt # "none"
    THEN [g |-> i.g, steps |-> StepsUntil(1, failAt), exc |-> "ConnectionError",
          receipt |-> NoReceipt]
    ELSE [g |-> i.g, steps |-> TxSteps, exc |-> "none", receipt |-> status]

\* send_verification_result and resolve_dispute_on_chain build the call from
\* the global contract before _send_transaction runs init_contract.
contract_function_call(g, handle, outcome, failAt, status) ==
    IF g.contract = None
    THEN [g |-> g, steps |-> <<>>, exc |-> "AttributeError", receipt |-> NoReceipt]
    ELSE send_transaction(g, handle, outcome, failAt, status)

\* get_job_details: init_contract() first, then contract.functions.jobs().call()
get_job_details_call(g, handle, outcome, failAt) ==
    LET i == init_contract_call(g, handle, outcome) IN
    IF i.exc # "none"
    THEN [g |-> i.g, steps |-> <<"init">>, exc |-> i.exc, receipt |-> NoReceipt]
    ELSE [g |-> i.g, steps |-> <<"init", "call">>,
          exc |-> IF failAt # "none" THEN "ConnectionError" ELSE "none",
          receipt |-> NoReceipt]

\* The tuples the contract's jobs mapping returns: nine components, here
\* told apart by their values.
JobTuples == {<<1, 2, 3, 4, 5, 6, 7, 8, 9>>, <<9, 8, 7, 6, 5, 4, 3, 2, 1>>,
              <<2, 1, 4, 3, 6, 5, 8, 7, 0>>}
NoDetails == [client |-> 0]

\* job_details = {'client': job_tuple[0], ..., 'disputeReason': job_tuple[8]}
job_details_swaps_hashes(job_tuple) ==
    [client |-> job_tuple[1], freelancer |-> job_tuple[2], title |-> job_tuple[3],
     descriptionIPFSHash |-> job_tuple[7], price |-> job_tuple[5],
     deadline |-> job_tuple[6], resultIPFSHash |-> job_tuple[4],
     status |-> job_tuple[8], disputeReason |-> job_tuple[9]]
job_details(job_tuple) ==
    [client |-> job_tuple[1], freelancer |-> job_tuple[2], title |-> job_tuple[3],
     descriptionIPFSHash |-> job_tuple[4], price |-> job_tuple[5],
     deadline |-> job_tuple[6], resultIPFSHash |-> job_tuple[7],
     status |-> job_tuple[8], disputeReason |-> job_tuple[9]]

\* ------------------------------------------------------------ call actions
Broadcasts(steps) == Cardinality({i \in 1..Len(steps) : steps[i] = "broadcast"})

VerifyCall ==
    /\ \E minimum \in Thresholds, tool \in ToolOutcomes, report \in ReportKinds,
          pct \in CallPercents \cup {0} :
         /\ report # "percent" => pct = 0
         /\ LET r == verify_code_coverage_call(minimum, tool, report, pct) IN
              call' = [fn |-> "verify_code_coverage", minimum |-> minimum,
                       tool |-> tool, report |-> report, pct |-> pct,
                       ret |-> r.ret, raises |-> r.raises]
    /\ UNCHANGED <<listenerVars, connVars, faults>>

DownloadCall ==
    /\ \E resp \in Responses, wr \in BOOLEAN :
         /\ ~wr => resp = "ok"
         /\ LET r == download_work_from_ipfs(resp, wr, {}) IN
              call' = [fn |-> "download_work_from_ipfs", resp |-> resp, wr |-> wr,
                       ret |-> r.ret, raises |-> r.raises, dirs |-> r.fs]
    /\ UNCHANGED <<listenerVars, connVars, faults>>

\* A rebuilt connection takes the next handle.
Rebuilds(g) == g.w3 # None /\ g.w3 # w3

InitContractCall ==
    /\ \E outcome \in InitOutcomes :
         /\ AllSet(Globals) => outcome = "ok"
         /\ LET r == init_contract_call(Globals, connCount + 1, outcome) IN
              /\ Rebuilds(r.g) => connCount <= MaxFaults
              /\ SetGlobals(r.g)
              /\ connCount' = IF Rebuilds(r.g) THEN connCount + 1 ELSE connCount
              /\ call' = [fn |-> "init_contract", before |-> Globals,
                          outcome |-> outcome, exc |-> r.exc,
                          checked |-> r.checked, after |-> r.g]
    /\ UNCHANGED <<listenerVars, faults>>

TxCall ==
    /\ \E fn \in TxFns, outcome \in InitOutcomes, failAt \in FailPoints,
          status \in {0, 1} :
         /\ AllSet(Globals) => outcome = "ok"
         /\ failAt # "none" => status = 0
         /\ LET r == IF fn = "_send_transaction"
                     THEN send_transaction(Globals, connCount + 1, outcome, failAt, status)
                     ELSE contract_function_call(Globals, connCount + 1, outcome,
                                                 failAt, status) IN
              /\ Rebuilds(r.g) => connCount <= MaxFaults
              /\ SetGlobals(r.g)
              /\ connCount' = IF Rebuilds(r.g) THEN connCount + 1 ELSE connCount
              /\ call' = [fn |-> fn, before |-> Globals, outcome |-> outcome,
                          failAt |-> failAt, status |-> status, steps |-> r.steps,
                          exc |-> r.exc, receipt |-> r.receipt, after |-> r.g]
    /\ UNCHANGED <<listenerVars, faults>>

GetJobDetailsCall ==
    /\ \E outcome \in InitOutcomes, failAt \in {"none", "call"},
          job_tuple \in JobTuples :
         /\ AllSet(Globals) => outcome = "ok"
         /\ LET r == get_job_details_call(Globals, connCount + 1, outcome, failAt) IN
              /\ Rebuilds(r.g) => connCount <= MaxFaults
              /\ SetGlobals(r.g)
              /\ connCount' = IF Rebuilds(r.g) THEN connCount + 1 ELSE connCount
              /\ call' = [fn |-> "get_job_details", before |-> Globals,
                          outcome |-> outcome, failAt |-> failAt, steps |-> r.steps,
                          exc |-> r.exc, after |-> r.g, job_tuple |-> job_tuple,
                          ret |-> IF r.exc = "none" THEN job_details(job_tuple)
                                  ELSE NoDetails]
    /\ UNCHANGED <<listenerVars, faults>>

\* The listener's exception handler runs between two calls.
ListenerDrops ==
    /\ CanFail
    /\ ExceptHandler(Globals)
    /\ call' = [fn |-> "listen_for_event"]
    /\ UNCHANGED <<head, evBlocks, provLag, connCount, batch, event, temp_dir,
                   is_approved, scratch, sent, initial_watermark, handled,
                   completed, fetch, checked, quality, slept>>

CallNext ==
    \/ VerifyCall
    \/ DownloadCall
    \/ InitContractCall
    \/ TxCall
    \/ GetJobDetailsCall
    \/ ListenerDrops

\* The service functions called directly, in any order, from any state of
\* the connection globals.
CallSpec == Init /\ [][CallNext]_vars

\* ===================================================== config.py at import
\* An environment variable: unset, or set to a string (a sequence of
\* characters). os.getenv gives None for an unset one.
Unset == [set |-> FALSE, val |-> <<>>]
Str(chars) == [set |-> TRUE, val |-> chars]
RequiredSettings == <<"FUJI_RPC_URL", "CONTRACT_ADDRESS", "AI_AGENT_PRIVATE_KEY",
                      "IPFS_API_URL", "CONTRACT_ABI_PATH", "GOOGLE_API_KEY">>
RequiredValues == {Unset, Str(<<>>), Str(<<"x">>)}
MinimumValues == {Unset, Str(<<>>), Str(<<"9", "0">>), Str(<<"8", "5">>),
                  Str(<<"0">>), Str(<<" ", "7">>), Str(<<"9", ".", "5">>),
                  Str(<<"a">>)}
NoThreshold == -1

\* os.getenv(name, default)
getenv(v, default) == IF v.set THEN v ELSE default
\* not X
Falsy(v) == ~v.set \/ v.val = <<>>

DigitValue == ("0" :> 0) @@ ("1" :> 1) @@ ("2" :> 2) @@ ("3" :> 3) @@ ("4" :> 4)
              @@ ("5" :> 5) @@ ("6" :> 6) @@ ("7" :> 7) @@ ("8" :> 8) @@ ("9" :> 9)

RECURSIVE Strip(_)
Strip(chars) ==
    IF chars = <<>> THEN <<>>
    ELSE IF Head(chars) = " " THEN Strip(Tail(chars))
    ELSE IF chars[Len(chars)] = " " THEN Strip(SubSeq(chars, 1, Len(chars) - 1))
    ELSE chars

RECURSIVE DigitsValue(_, _)
DigitsValue(chars, acc) ==
    IF chars = <<>> THEN acc
    ELSE DigitsValue(Tail(chars), acc * 10 + DigitValue[Head(chars)])

\* int(s): surrounding blanks are ignored; anything but decimal digits is a
\* ValueError, and so is the empty string.
int(v) ==
    LET chars == Strip(v.val) IN
    IF chars # <<>> /\ \A i \in 1..Len(chars) : chars[i] \in DOMAIN DigitValue
    THEN [ok |-> TRUE, val |-> DigitsValue(chars, 0)]
    ELSE [ok |-> FALSE, val |-> NoThreshold]

Missing(env) == {i \in 1..Len(RequiredSettings) : Falsy(env[RequiredSettings[i]])}
FirstMissing(env) ==
    RequiredSettings[CHOOSE i \in Missing(env) : \A j \in Missing(env) : i <= j]

\* The module body: line 11 converts the threshold before the checks of
\* lines 15-26 run, in this order.
load_config(env) ==
    LET minimum == int(getenv(env["MINIMUM_COVERAGE_PERCENTAGE"], Str(<<"9", "0">>))) IN
    IF ~minimum.ok
    THEN [exc |-> "ValueError", names |-> "int", minimum |-> NoThreshold]
    ELSE IF Missing(env) # {}
    THEN [exc |-> "ValueError", names |-> FirstMissing(env), minimum |-> NoThreshold]
    ELSE [exc |-> "none", names |-> "", minimum |-> minimum.val]

\* The environment in which required setting i has value req[i].
Environment(req, minimum) ==
    [name \in {RequiredSettings[i] : i \in 1..Len(RequiredSettings)}
                \cup {"MINIMUM_COVERAGE_PERCENTAGE"} |->
        IF name = "MINIMUM_COVERAGE_PERCENTAGE" THEN minimum
        ELSE req[CHOOSE i \in 1..Len(RequiredSettings) : RequiredSettings[i] = name]]

\* import config: once, when the process starts.
LoadConfig ==
    /\ call = NoCall
    /\ \E req \in [1..Len(RequiredSettings) -> RequiredValues],
          minimum \in MinimumValues :
         LET env == Environment(req, minimum)
             r == load_config(env) IN
           call' = [fn |-> "config", env |-> env, exc |-> r.exc, names |-> r.names,
                    minimum |-> r.minimum]
    /\ UNCHANGED <<listenerVars, connVars, faults>>

\* the process runs: config was imported without an exception
Started == call.fn \in {"download_work_from_ipfs", "rmtree"}
               \/ (call.fn = "config" /\ call.exc = "none")

\* ================================ downloads that share one temporary directory
\* content addresses fetched by the calls
Hashes == {1, 2}

\* download_work_from_ipfs(hash) on the filesystem the earlier calls left.
StoreDownload ==
    /\ Started
    /\ Cardinality(scratch) <= MaxLeaks
    /\ \E hash \in Hashes, resp \in Responses, wr \in BOOLEAN :
         /\ ~wr => resp = "ok"
         /\ LET r == download_work_from_ipfs(resp, wr, scratch) IN
              /\ scratch' = r.fs
              /\ call' = [fn |-> "download_work_from_ipfs", hash |-> hash,
                          resp |-> resp, wr |-> wr, before |-> scratch,
                          ret |-> r.ret, raises |-> r.raises, after |-> r.fs]
    /\ UNCHANGED <<head, evBlocks, provLag, pc, raised, last_block_number,
                   batch, event, temp_dir, is_approved, sent,
                   initial_watermark, handled, completed, fetch, checked,
                   quality, connVars, faults, slept>>

\* A job removes the scratch directory its download returned.
StoreCleanup ==
    /\ Started
    /\ \E d \in scratch :
         /\ scratch' = scratch \ {d}
         /\ call' = [fn |-> "rmtree", dir |-> d, before |-> scratch,
                     after |-> scratch \ {d}]
    /\ UNCHANGED <<head, evBlocks, provLag, pc, raised, last_block_number,
                   batch, event, temp_dir, is_approved, sent,
                   initial_watermark, handled, completed, fetch, checked,
                   quality, connVars, faults, slept>>

StartupNext ==
    \/ LoadConfig
    \/ StoreDownload
    \/ StoreCleanup

\* The process from import on: the configuration is loaded, then content is
\* fetched and removed.
StartupSpec == Init /\ [][StartupNext]_vars

\* ====================================================== the HTTP endpoints
\* USE_MOCK_ANALYZE_INPUT = False
USE_MOCK_ANALYZE_INPUT == FALSE

\* keys the endpoints look for in the advisory model's answer
ReplyKeys == {"feasible", "match_score", "inputType", "reason"}
InputTypes == {"ipfs_hash", "repo_link", "other"}

\* What the advisory model answers. kind: the call raises, the text is not
\* JSON, or the JSON value is null, a number, a string or an object; keys:
\* the keys of the object, or the key names a string contains; inputType:
\* the value under "inputType".
PlainReply(kind) == [kind |-> kind, keys |-> {}, inputType |-> "none"]
ModelReplies ==
    {PlainReply(k) : k \in {"api_error", "not_json", "null", "zero", "number"}}
    \cup {[kind |-> "string", keys |-> ks, inputType |-> "none"] :
             ks \in SUBSET ReplyKeys}
    \cup {[kind |-> "object", keys |-> ks, inputType |-> t] :
             ks \in SUBSET (ReplyKeys \ {"inputType"}), t \in {"none"}}
    \cup {[kind |-> "object", keys |-> ks \cup {"inputType"}, inputType |-> t] :
             ks \in SUBSET (ReplyKeys \ {"inputType"}), t \in InputTypes}

\* call_gemini_model(prompt, parse_json=True): json.loads of the answer;
\* None when the model call or the parsing raises.
NoReply == PlainReply("none")
call_gemini_model(reply) ==
    IF reply.kind \in {"api_error", "not_json", "null"} THEN NoReply ELSE reply

\* bool(ai_response)
Truthy(r) ==
    /\ r.kind \notin {"none", "zero"}
    /\ r.kind \in {"string", "object"} => r.keys # {}

\* ai_response and key in ai_response and "reason" in ai_response
\* (the in operator raises TypeError on a number)
has_keys(r, key) ==
    IF ~Truthy(r) THEN "no"
    ELSE IF r.kind = "number" THEN "TypeError"
    ELSE IF key \in r.keys /\ "reason" \in r.keys THEN "yes"
    ELSE "no"

\* What leaves a try body: a returned value or a raised exception.
Text(t) == [text |-> t]
Returned(body) ==
    [exc |-> "none", status_code |-> 200, detail |-> Text(""), body |-> body]
HTTPException(status_code, detail) ==
    [exc |-> "HTTPException", status_code |-> status_code, detail |-> detail,
     body |-> NoReply]
Raised(exc) ==
    [exc |-> exc, status_code |-> 0, detail |-> Text(exc), body |-> NoReply]

\* except Exception as e: if isinstance(e, HTTPException): raise e
\*                        raise HTTPException(500, f"...: {str(e)}")
wrap_everything(r) ==
    IF r.exc = "none" THEN r
    ELSE HTTPException(500, [text |-> "An internal error occurred: ",
                             str |-> r.detail])
reraise_or_wrap(r) ==
    IF r.exc = "none" THEN r
    ELSE IF r.exc = "HTTPException" THEN r
    ELSE HTTPException(500, [text |-> "An internal error occurred: ",
                             str |-> r.detail])

\* check_job_feasibility: the try body, then its except clause, which has no
\* isinstance test.
InvalidAnalysis ==
    [feasible |-> FALSE,
     reason |-> "Failed to get a valid analysis from AI. Please try again."]
check_job_feasibility_try(reply) ==
    LET ai_response == call_gemini_model(reply) IN
    IF has_keys(ai_response, "feasible") = "TypeError" THEN Raised("TypeError")
    ELSE IF has_keys(ai_response, "feasible") = "yes" THEN Returned(ai_response)
    ELSE HTTPException(500, InvalidAnalysis)
check_job_feasibility(reply) ==
    LET r == check_job_feasibility_try(reply) IN
    IF r.exc = "none" THEN r
    ELSE HTTPException(500,
            [text |-> "An internal error occurred during AI analysis: ",
             str |-> r.detail])

\* ipfs_service.get_file_content_from_ipfs: the text of the response, "" when
\* the request fails.
StoreTexts == {"", "description"}
get_file_content_from_ipfs(resp, text) == IF resp # "ok" THEN "" ELSE text

\* What the endpoint has of blockchain_service.get_job_details: the exception
\* it raised, or the dictionary it returned. An empty hash is 0.
NoHash == 0
EndpointJobTuples ==
    {<<1, 2, 3, 4, 5, 6, 7, 8, 9>>, <<1, 2, 3, NoHash, 5, 6, 7, 8, 9>>}

\* evaluate_job_fit; advisory tells whether call_gemini_model was reached.
evaluate_job_fit_try(exc, details, description, reply) ==
    IF exc # "none" THEN [r |-> Raised(exc), advisory |-> FALSE]
    ELSE IF details.descriptionIPFSHash = NoHash
    THEN [r |-> HTTPException(404, Text("Job details not found on the blockchain.")),
          advisory |-> FALSE]
    ELSE IF description = ""
    THEN [r |-> HTTPException(404, Text("Failed to fetch job description from IPFS.")),
          advisory |-> FALSE]
    ELSE LET ai_response == call_gemini_model(reply) IN
         [r |-> IF has_keys(ai_response, "match_score") = "TypeError"
                THEN Raised("TypeError")
                ELSE IF has_keys(ai_response, "match_score") = "yes"
                THEN Returned(ai_response)
                ELSE HTTPException(500, Text("Failed to get a valid analysis from AI.")),
          advisory |-> TRUE]
evaluate_job_fit(exc, details, description, reply) ==
    LET t == evaluate_job_fit_try(exc, details, description, reply) IN
    [r |-> reraise_or_wrap(t.r), advisory |-> t.advisory]

\* analyze_job_work_input; ai_response["inputType"] raises TypeError on a
\* string.
MockAnalysis ==
    [kind |-> "object", keys |-> {"inputType", "reason"}, inputType |-> "repo_link"]
analyze_job_work_input_try(exc, details, description, reply) ==
    IF exc # "none" THEN [r |-> Raised(exc), advisory |-> FALSE]
    ELSE IF details.descriptionIPFSHash = NoHash
    THEN [r |-> HTTPException(404, Text("Job description not found on the blockchain.")),
          advisory |-> FALSE]
    ELSE IF description = ""
    THEN [r |-> HTTPException(404, Text("Failed to fetch job description from IPFS.")),
          advisory |-> FALSE]
    ELSE LET ai_response == call_gemini_model(reply) IN
         [r |-> IF has_keys(ai_response, "inputType") = "TypeError"
                THEN Raised("TypeError")
                ELSE IF has_keys(ai_response, "inputType") = "yes"
                THEN (IF ai_response.kind = "string" THEN Raised("TypeError")
                      ELSE IF ai_response.inputType \notin {"ipfs_hash", "repo_link"}
                      THEN HTTPException(500, Text("AI returned an invalid inputType."))
                      ELSE Returned(ai_response))
                ELSE HTTPException(500, Text("Failed to get a valid analysis from AI.")),
          advisory |-> TRUE]
analyze_job_work_input(exc, details, description, reply) ==
    IF USE_MOCK_ANALYZE_INPUT
    THEN [r |-> Returned(MockAnalysis), advisory |-> FALSE]
    ELSE LET t == analyze_job_work_input_try(exc, details, description, reply) IN
         [r |-> reraise_or_wrap(t.r), advisory |-> t.advisory]

\* --------------------------------------------------------- endpoint requests
CheckJobFeasibility ==
    /\ \E reply \in ModelReplies :
         call' = [fn |-> "check_job_feasibility", reply |-> reply,
                  response |-> check_job_feasibility(reply)]
    /\ UNCHANGED <<listenerVars, connVars, faults>>

\* Both endpoints read the job through get_job_details, which runs
\* init_contract, then fetch the description, then ask the advisory model.
\* An input the request does not get to use has one value.
JobEndpoint(fn) ==
    \E outcome \in InitOutcomes, failAt \in {"none", "call"},
       job_tuple \in EndpointJobTuples, resp \in Responses,
       text \in StoreTexts, reply \in ModelReplies :
        /\ AllSet(Globals) => outcome = "ok"
        /\ outcome # "ok" => failAt = "none"
        /\ resp # "ok" => text = ""
        /\ (\/ outcome # "ok" \/ failAt # "none" \/ job_tuple[4] = NoHash
            \/ text = "") => reply = PlainReply("null")
        /\ LET g == get_job_details_call(Globals, connCount + 1, outcome, failAt)
               details == IF g.exc = "none" THEN job_details(job_tuple)
                          ELSE NoDetails
               description == get_file_content_from_ipfs(resp, text)
               e == IF fn = "evaluate_job_fit"
                    THEN evaluate_job_fit(g.exc, details, description, reply)
                    ELSE analyze_job_work_input(g.exc, details, description, reply)
           IN
              /\ Rebuilds(g.g) => connCount <= MaxFaults
              /\ SetGlobals(g.g)
              /\ connCount' = IF Rebuilds(g.g) THEN connCount + 1 ELSE connCount
              /\ call' = [fn |-> fn, exc |-> g.exc, details |-> details,
                          description |-> description, reply |-> reply,
                          advisory |-> e.advisory, response |-> e.r]
        /\ UNCHANGED <<listenerVars, faults>>

EvaluateJobFit == JobEndpoint("evaluate_job_fit")
AnalyzeJobWorkInput == JobEndpoint("analyze_job_work_input")

ApiNext ==
    \/ CheckJobFeasibility
    \/ EvaluateJobFit
    \/ AnalyzeJobWorkInput

\* The requests the HTTP facade serves, in any order.
ApiSpec == Init /\ [][ApiNext]_vars

\* ===================================================================== claims

\* C1: every handling of a detected WorkSubmitted event makes exactly one
\* verdict-submission attempt, a verifyWork call for that event's jobId:
\* none while the handling is still running, one once it has returned or
\* raised, whichever branch produced the verdict.
C1_OneAttemptPerDetection ==
    event # NoEvent =>
        IF pc \in HandlingPcs
        THEN sent = <<>>
        ELSE Len(sent) = 1 /\ sent[1][1] = JobId(event)

\* A handling whose checker accepted has returned with its one attempt.
C1_Witness ==
    /\ pc = "batch"
    /\ event # NoEvent
    /\ checked
    /\ sent = << <<JobId(event), TRUE>> >>

\* C2 (as claimed): when the watermark is B, every event of a block above
\* the initial watermark and <= B has had its callback run to completion.
C2_WatermarkCoversCompleted ==
    initial_watermark # NoBlock =>
        \A e \in evBlocks :
            (e > initial_watermark /\ e <= last_block_number) => e \in completed

\* C3 (as claimed): every event of a block above the initial watermark is
\* eventually passed to the callback.
C3_NoEventSkipped ==
    \A e \in Blocks :
        [](e \in evBlocks /\ initial_watermark # NoBlock /\ e > initial_watermark
              => <>(handled[e] > 0))

\* C4 (as claimed): no event is passed to the callback more than once.
C4_NeverHandledTwice == \A e \in Blocks : handled[e] <= 1

\* C4 (amended): an event is passed to the callback at most once per poll,
\* and again only after an iteration that ended in the exception handler:
\* the times an event was handled never exceed one plus the number of
\* exceptions the handler has caught, and the entries still waiting in a
\* batch all come after the one being handled.
C4_AtMostOncePerFailure ==
    /\ \A e \in Blocks : handled[e] <= 1 + faults
    /\ event # NoEvent => \A i \in 1..Len(batch) : batch[i] > event

\* An event is handled a second time after one caught exception.
C4_Witness == \E e \in Blocks : handled[e] = 2 /\ faults = 1 /\ pc = "download"

\* C5: an exception inside the loop never ends the listener. The step that
\* raises leaves the watermark as it was and enters the cooldown with w3 and
\* contract dropped; the watermark changes only at the height read that ends
\* an iteration without exception; after the cooldown the loop rebuilds the
\* connection through init_contract (or absorbs its failure the same way)
\* and polls again.
C5_Absorbed ==
    [][ /\ pc \in LoopPcs => pc' \in LoopPcs
        /\ faults' # faults =>
              /\ pc' = "cooldown"
              /\ last_block_number' = last_block_number
              /\ w3' = None /\ contract' = None
        /\ last_block_number' # last_block_number =>
              pc \in {"start", "height"} /\ faults' = faults
        /\ (pc = "cooldown" /\ pc' # pc) => pc' = "loop"
        /\ (pc = "loop" /\ pc' = "filter" /\ w3 = None) =>
              /\ connCount' = connCount + 1
              /\ w3' = connCount' /\ contract' = connCount'
              /\ ai_agent_account' = connCount'
      ]_vars
C5_PollsAgain == (pc = "cooldown") ~> (pc = "batch")
C5_FaultsAbsorbed == C5_Absorbed /\ C5_PollsAgain

\* After two caught exceptions the listener is handling a polled event on a
\* rebuilt connection.
C5_Witness == faults = 2 /\ pc = "download" /\ w3 = connCount /\ connCount >= 2

\* C6 (as claimed): starting the listener on a connection that was never
\* initialised does not raise out of the listener.
C6_StartNeverRaises == ~(pc = "crashed" /\ raised = "AttributeError")

\* C7 (as claimed): after the exception handler has run, w3, contract and
\* ai_agent_account are all None.
C7_HandlerDropsAll ==
    pc = "cooldown" =>
        w3 = None /\ contract = None /\ ai_agent_account = None

\* C8 (as claimed): no scratch directory exists once the handling that
\* created it has returned or raised.
C8_ScratchRemoved == pc \notin HandlingPcs => scratch = {}

\* C9: when the fetch fails (HTTP error, connection error or timeout), the
\* checker is never invoked for that handling and the handling ends with
\* exactly one verifyWork(jobId, false).
C9_FetchFailureRejects ==
    fetch = "failed" =>
        /\ ~checked
        /\ pc \in HandlingPcs => (pc = "submit" /\ sent = <<>>)
        /\ pc \notin HandlingPcs => sent = << <<JobId(event), FALSE>> >>

\* A handling whose fetch failed has returned.
C9_Witness == fetch = "failed" /\ pc = "batch" /\ Len(sent) = 1

C11_ThresholdInclusive ==
    (call.fn = "verify_code_coverage" /\ call.tool = "ok" /\ call.report = "percent")
        => /\ ~call.raises
           /\ call.ret <=> (call.pct >= call.minimum * 100)
           /\ (call.pct = call.minimum * 100) => call.ret

C11_Witness ==
    /\ call.fn = "verify_code_coverage"
    /\ call.tool = "ok" /\ call.report = "percent"
    /\ call.minimum = MINIMUM_COVERAGE_PERCENTAGE
    /\ call.pct = call.minimum * 100
    /\ call.ret

\* ---------------------------------------------------------------------------
\* C12: for every configured minimum, a report that is absent, cannot be
\* parsed or lacks the summary field (totals or percent_covered) makes
\* verify_code_coverage return FALSE without raising.
C12_MissingMetricFails ==
    (/\ call.fn = "verify_code_coverage"
     /\ call.tool = "ok"
     /\ call.report \in {"absent", "unparsable", "no_totals", "no_percent"})
        => (call.ret = FALSE /\ ~call.raises)

\* ---------------------------------------------------------------------------
\* C13: verify_code_coverage never raises; when the tool cannot be started,
\* exits with an error, or anything else goes wrong while running it or
\* reading the report, the call returns FALSE.
C13_FailuresAreFalse ==
    call.fn = "verify_code_coverage"
        => /\ ~call.raises
           /\ (call.tool # "ok" \/ call.report \in {"unparsable", "not_a_number"})
                  => call.ret = FALSE

C13_Witness ==
    /\ call.fn = "verify_code_coverage"
    /\ \/ call.tool = "os_error"
       \/ call.tool = "ok" /\ call.report = "not_a_number"
    /\ call.ret = FALSE /\ ~call.raises

\* ---------------------------------------------------------------------------
\* C14: verify_code_coverage returns TRUE if and only if the tool exited
\* cleanly, the report exists, the report parses, and a percentage was
\* extracted from it that is at least the configured minimum.
ToolExitedCleanly(c) == c.tool = "ok"
ReportExists(c) == c.report # "absent"
ReportParses(c) == c.report \notin {"absent", "unparsable"}
ExtractedMeetsMinimum(c) == c.report = "percent" /\ c.pct >= c.minimum * 100

C14_SuccessIffAllFour ==
    call.fn = "verify_code_coverage"
        => (call.ret <=> /\ ToolExitedCleanly(call)
                         /\ ReportExists(call)
                         /\ ReportParses(call)
                         /\ ExtractedMeetsMinimum(call))

\* ---------------------------------------------------------------------------
\* C15: a transaction that was mined with a failed status is not an error:
\* _send_transaction returns the receipt, whatever its status, and raises
\* nothing.
Mined(c) == c.fn \in TxFns /\ "wait" \in {c.steps[i] : i \in 1..Len(c.steps)}
                /\ c.failAt = "none"

C15_RevertIsNotAnError ==
    Mined(call) => (call.exc = "none" /\ call.receipt = call.status)

C15_Witness ==
    Mined(call) /\ call.status = 0 /\ call.receipt = 0 /\ call.exc = "none"

\* ---------------------------------------------------------------------------
\* C16: a submission is broadcast at most once per call, and a call that
\* returns has broadcast exactly once, whether the receipt reports success or
\* failure: nothing is retried.
C16_NoRetry ==
    call.fn \in TxFns
        => /\ Broadcasts(call.steps) <= 1
           /\ call.exc = "none" => Broadcasts(call.steps) = 1

C16_Witness ==
    /\ call.fn = "send_verification_result"
    /\ call.exc = "none" /\ call.status = 0
    /\ Broadcasts(call.steps) = 1

\* ---------------------------------------------------------------------------
\* C17: init_contract is idempotent: a call that finds the three handles set
\* returns without the connection check and leaves the handles as they were;
\* a call that succeeds leaves all three set.
C17_InitIdempotent ==
    call.fn = "init_contract"
        => /\ AllSet(call.before)
                  => (call.after = call.before /\ ~call.checked /\ call.exc = "none")
           /\ call.exc = "none" => (AllSet(call.after) /\ call.after = Globals)

C17_Witness ==
    /\ call.fn = "init_contract"
    /\ AllSet(call.before)
    /\ call.after = call.before
    /\ connCount > 0

\* ---------------------------------------------------------------------------
\* C18: a failed initialisation resets all three handles to None and
\* re-raises: a node that is not connected gives a ConnectionError, a missing
\* metadata file its own error; the next call starts a full initialisation.
C18_FailedInitResets ==
    (call.fn = "init_contract" /\ call.exc # "none")
        => /\ call.after = NoGlobals
           /\ Globals = call.after
           /\ call.exc = InitError(call.outcome)
           /\ call.checked
           /\ call.outcome = "not_connected" => call.exc = "ConnectionError"

C18_Witness ==
    /\ call.fn = "init_contract"
    /\ call.outcome = "bad_key"
    /\ call.exc = "ValueError"
    /\ Globals = NoGlobals

\* ---------------------------------------------------------------------------
\* C19: every ledger operation called while a handle is absent either
\* initialises first or fails with the initialisation's own error; it never
\* fails by using the absent handle.
LedgerFns == TxFns \cup {"get_job_details"}

C19_InitialisesFirst ==
    (call.fn \in LedgerFns /\ ~AllSet(call.before))
        => /\ call.exc # "AttributeError"
           /\ Len(call.steps) > 0 /\ call.steps[1] = "init"

\* ---------------------------------------------------------------------------
\* C20: when the gateway request fails, answers with an error status, or the
\* content cannot be written, download_work_from_ipfs returns the empty
\* string and raises nothing.
C20_DownloadFailureIsEmpty ==
    (call.fn = "download_work_from_ipfs" /\ (call.resp # "ok" \/ ~call.wr))
        => (call.ret = NoDir /\ ~call.raises)


C22_WatermarkMonotonic ==
    [][ pc # "start" =>
          /\ last_block_number' >= last_block_number
          /\ last_block_number' # last_block_number =>
                (pc = "height" /\ batch = <<>>)
      ]_vars

\* ---------------------------------------------------------------------------
\* C23: a cancellation delivered at a suspension point ends the listener and
\* is not absorbed by the retry handler; nothing else takes the listener out
\* of its loop, and a cancelled listener does not run again.
C23_OnlyCancellationStops ==
    /\ [](raised = "CancelledError" => pc = "cancelled")
    /\ [][ /\ (pc \in LoopPcs /\ pc' \notin LoopPcs)
                => (pc \in SuspensionPcs /\ pc' = "cancelled"
                      /\ raised' = "CancelledError")
           /\ pc = "cancelled" => (pc' = "cancelled" /\ faults' = faults)
         ]_vars

\* The listener was cancelled during the cooldown that followed an exception.
C23_Witness == pc = "cancelled" /\ faults > 0 /\ w3 = None

\* ---------------------------------------------------------------------------
\* C24: the events of a batch are handled one at a time in the order of the
\* poll: a callback starts only from the batch loop, for the first entry
\* still waiting, after the callback of the entry before it has completed;
\* while a callback is in flight the batch is not touched, no poll starts
\* and no other callback starts.
C24_OneCallbackAtATime ==
    [][ /\ (pc' = "download" /\ pc # "download") =>
              /\ pc = "batch" /\ batch # <<>>
              /\ event' = batch[1]
              /\ batch' = SubSeq(batch, 2, Len(batch))
              /\ event # NoEvent => (event \in completed /\ event < event')
        /\ pc \in HandlingPcs =>
              /\ batch' = batch /\ event' = event
              /\ pc' \in HandlingPcs \cup {"batch", "cooldown"}
        /\ batch' # batch => pc \in {"filter", "batch"}
      ]_vars

\* The second event of a batch of two is being handled after the first one
\* has completed.
C24_Witness ==
    /\ pc = "download" /\ event = 2
    /\ 1 \in completed
    /\ handled[1] = 1 /\ handled[2] = 1
    /\ faults = 0 /\ last_block_number = 0

\* ---------------------------------------------------------------------------
\* C29: the listener returns to the top of its loop only through a wait:
\* 5 time-units after an iteration that ended without exception, 10 after
\* one whose exception the handler caught, the cooldown being the longer;
\* a poll or a reconnect attempt starts only from the top of the loop, so
\* none is made without such a wait since the attempt before it.
C29_WaitsBetweenAttempts ==
    /\ [](pc = "loop" => (slept \in {5, 10} \/ (slept = 0 /\ faults = 0)))
    /\ [][ /\ (pc' = "loop" /\ pc # "loop") =>
                \/ pc = "start"
                \/ pc = "sleep5" /\ slept' = 5
                \/ pc = "cooldown" /\ slept' = 10 /\ slept' > 5
           /\ (pc' = "sleep5" /\ pc # "sleep5") =>
                (pc = "height" /\ faults' = faults)
           /\ (pc' = "cooldown" /\ pc # "cooldown") => faults' = faults + 1
           /\ ((pc' = "filter" /\ pc # "filter") \/ connCount' # connCount)
                => pc = "loop"
         ]_vars

\* After an exception and its cooldown, an iteration has ended normally and
\* the poll interval has passed.
C29_Witness == pc = "loop" /\ slept = 5 /\ faults > 0

\* ---------------------------------------------------------------------------
\* C25: loading the configuration raises if a required setting is unset or
\* empty and succeeds exactly when all six are non-empty; the error names
\* the first missing setting in the order of the checks.
AllRequiredSet(env) ==
    \A i \in 1..Len(RequiredSettings) :
        env[RequiredSettings[i]].set /\ env[RequiredSettings[i]].val # <<>>

C25_FailFastOnRequired ==
    call.fn = "config"
        => /\ call.exc = "none" <=> AllRequiredSet(call.env)
           /\ ~AllRequiredSet(call.env) => call.names = FirstMissing(call.env)

\* ---------------------------------------------------------------------------
\* C26: with the required settings in place, an unset or empty
\* MINIMUM_COVERAGE_PERCENTAGE loads as 90 and an integer string loads as
\* that integer.
C26_ThresholdDefault ==
    (call.fn = "config" /\ AllRequiredSet(call.env))
        => LET m == call.env["MINIMUM_COVERAGE_PERCENTAGE"] IN
           /\ (~m.set \/ m.val = <<>>)
                 => (call.exc = "none" /\ call.minimum = 90)
           /\ m = Str(<<"8", "5">>) => (call.exc = "none" /\ call.minimum = 85)
           /\ m = Str(<<"0">>) => (call.exc = "none" /\ call.minimum = 0)


\* ---------------------------------------------------------------------------
\* C27: get_job_details returns the nine components of the contract's tuple
\* under the names client, freelancer, title, descriptionIPFSHash, price,
\* deadline, resultIPFSHash, status, disputeReason, in this order: the i-th
\* name carries the i-th component, and there is no other key.
JobFields == <<"client", "freelancer", "title", "descriptionIPFSHash", "price",
               "deadline", "resultIPFSHash", "status", "disputeReason">>

C27_PositionalDecode ==
    (call.fn = "get_job_details" /\ call.exc = "none")
        => /\ DOMAIN call.ret = {JobFields[i] : i \in 1..9}
           /\ \A i \in 1..9 : call.ret[JobFields[i]] = call.job_tuple[i]

C27_Witness ==
    /\ call.fn = "get_job_details" /\ call.exc = "none"
    /\ call.job_tuple = <<9, 8, 7, 6, 5, 4, 3, 2, 1>>
    /\ call.ret.client = 9 /\ call.ret.disputeReason = 1


\* ---------------------------------------------------------------------------
\* C28: _send_transaction ensures the connection, reads the nonce, builds,
\* signs, broadcasts and waits for the receipt, in this order; it returns
\* only after the wait has given the receipt; when a step raises, that step
\* is the last one run.
C28_BlockingUnitInOrder ==
    call.fn \in TxFns =>
        LET order == <<"init", "nonce", "build", "sign", "broadcast", "wait">> IN
        /\ Len(call.steps) <= Len(order)
        /\ \A i \in 1..Len(call.steps) : call.steps[i] = order[i]
        /\ call.exc = "none" =>
              (call.steps = order /\ call.receipt = call.status)
        /\ (call.exc # "none" /\ call.steps # <<>>) =>
              /\ call.receipt = NoReceipt
              /\ call.steps[Len(call.steps)] =
                    (IF call.exc = "ConnectionError" /\ call.failAt # "none"
                        /\ Len(call.steps) > 1
                     THEN call.failAt ELSE "init")

\* The signing step raised: nothing was broadcast.
C28_Witness ==
    /\ call.fn = "_send_transaction"
    /\ call.failAt = "sign"
    /\ call.steps = <<"init", "nonce", "build", "sign">>
    /\ call.exc # "none"


\* ---------------------------------------------------------------------------
\* C30: a poll returns each event above the watermark once, in ascending
\* order, and each returned event is passed to the callback once; a handling
\* makes at most one submission. So a re-run after a failure hands an event
\* to the callback at most once more: an event handled n times has n - 1
\* failures of the listener before its last handling.
C30_OneExtraPerRerun ==
    /\ [](\A e \in Blocks : handled[e] > 1 => faults >= handled[e] - 1)
    /\ [][ /\ \A e \in Blocks :
                handled'[e] # handled[e] =>
                    /\ handled'[e] = handled[e] + 1
                    /\ pc = "batch" /\ batch # <<>> /\ e = batch[1]
                    /\ e > last_block_number
                    /\ \A i \in 1..Len(batch') : batch'[i] > e
           /\ (pc = "filter" /\ pc' = "batch") =>
                \A i \in 1..Len(batch') :
                    /\ batch'[i] > last_block_number
                    /\ \A j \in 1..Len(batch') : i < j => batch'[i] < batch'[j]
           /\ Len(sent') <= 1
         ]_vars

\* The re-run after one failure has handled an event a second time and made
\* its one extra submission.
C30_Witness ==
    /\ faults = 1
    /\ event # NoEvent /\ handled[event] = 2
    /\ pc = "batch" /\ Len(sent) = 1
    /\ event > last_block_number


\* ---------------------------------------------------------------------------
\* C31 (as claimed): in every state w3, contract and ai_agent_account are
\* either all None or all set, whatever the order of init_contract calls,
\* ledger operations and runs of the listener's exception handler.
C31_AllOrNothing == Globals = NoGlobals \/ AllSet(Globals)


\* ---------------------------------------------------------------------------
\* C32 (as claimed): when the callback of one event of a batch raises, the
\* events behind it in the batch are not handled in that iteration and the
\* watermark stays where it was; each of those events is handled later, after
\* a poll from the unchanged watermark has returned it.
C32_NothingInThatIteration ==
    [][ /\ (pc \in HandlingPcs /\ pc' = "cooldown") =>
              /\ last_block_number' = last_block_number
              /\ handled' = handled
        /\ (pc = "cooldown" /\ event # NoEvent) =>
              /\ last_block_number' = last_block_number
              /\ handled' = handled
      ]_vars
C32_RemainingHandledLater ==
    \A e \in Blocks : \A n \in 0..(MaxFaults + 1) :
        []((pc = "cooldown" /\ event # NoEvent /\ handled[e] = n
              /\ \E i \in 1..Len(batch) : batch[i] = e)
            => <>(handled[e] > n))
C32_FailureDelaysNotDrops ==
    C32_NothingInThatIteration /\ C32_RemainingHandledLater


\* ---------------------------------------------------------------------------
\* C33 (as claimed): every poll returns only events of blocks strictly above
\* the watermark, and once the watermark has been at B no event of a block
\* at or below B is passed to the callback by any later poll.
C33_PollsAboveWatermark ==
    [][ (pc = "filter" /\ pc' = "batch") =>
            \A i \in 1..Len(batch') : batch'[i] > last_block_number
      ]_vars
C33_NothingBelowPastWatermark ==
    \A B \in Blocks : \A e \in 1..B : \A n \in 0..(MaxFaults + 1) :
        []((last_block_number = B /\ handled[e] = n) => [](handled[e] = n))
C33_NoDeliveryAtOrBelowWatermark ==
    C33_PollsAboveWatermark /\ C33_NothingBelowPastWatermark


\* ---------------------------------------------------------------------------
\* C34: download_work_from_ipfs creates its scratch directory only after the
\* request has succeeded: a call whose request fails (connection error,
\* timeout or error status) returns the empty string, raises nothing and
\* leaves the set of existing directories as it found it.
C34_NoScratchOnRequestFailure ==
    call.fn = "download_work_from_ipfs" =>
        /\ call.resp # "ok" =>
              (call.ret = NoDir /\ ~call.raises /\ call.after = call.before)
        /\ call.after # call.before => call.resp = "ok"

\* A request times out while the directory of an earlier call exists, and
\* the directories are the same after the call.
C34_Witness ==
    /\ call.fn = "download_work_from_ipfs"
    /\ call.resp = "timeout"
    /\ call.ret = NoDir
    /\ call.before # {}
    /\ scratch = call.before


\* ---------------------------------------------------------------------------
\* C35: evaluate_job_fit and analyze_job_work_input answer 404 when the job
\* read from the ledger has no descriptionIPFSHash or the description fetched
\* from the store is empty, and in neither case call the advisory model; an
\* advisory answer that is missing, lacks a required key or (for the input
\* analysis) names an unknown inputType gives 500; any other exception gives
\* 500; a 404 or 500 raised inside the try keeps its status and detail.
C35_AnswerMissing == call.reply.kind \in {"api_error", "not_json", "null"}
C35_RequiredKey ==
    IF call.fn = "evaluate_job_fit" THEN "match_score" ELSE "inputType"
C35_AnswerInvalid ==
    \/ C35_AnswerMissing
    \/ /\ call.reply.kind = "object"
       /\ \/ ~({C35_RequiredKey, "reason"} \subseteq call.reply.keys)
          \/ /\ call.fn = "analyze_job_work_input"
             /\ call.reply.inputType \notin {"ipfs_hash", "repo_link"}
C36_StructuredFailure ==
    call.fn = "check_job_feasibility" =>
        /\ (\/ call.reply.kind \in {"api_error", "not_json", "null"}
            \/ /\ call.reply.kind = "object"
               /\ ~({"feasible", "reason"} \subseteq call.reply.keys))
              => /\ call.response.status_code = 500
                 /\ call.response.detail = InvalidAnalysis
        /\ call.response.status_code = 200 =>
              {"feasible", "reason"} \subseteq call.response.body.keys

====
